---- MODULE Spec2Model ----
(***************************************************************************)
(* State-machine model of the EC2 bootstrap script                         *)
(*   src/bootstrap-webcenter-sites.py  (main and the functions it calls)   *)
(*                                                                         *)
(* Text is modelled as a sequence of symbols.  The symbol EC2 stands for   *)
(* the thirteen characters "ec2-metadata." ; every other symbol is one     *)
(* character.  External systems (user data, EC2, S3, mount, chkconfig,     *)
(* service) answer nondeterministically from small sets.                   *)
(***************************************************************************)
EXTENDS Integers, Sequences, FiniteSets, TLC

(***************************************************************************)
(* Bounds of the model                                                     *)
(***************************************************************************)
MaxItems    == 1      \* entries of the [host_config] section
MaxFileList == 1      \* lines of bootstrap.filelist
MaxLines    == 1      \* lines of a target file
MaxServices == 2      \* length of the 'services' list

(***************************************************************************)
(* Program constants                                                       *)
(***************************************************************************)
MaxMountTries    == 5     \* range(0, 5)
MountDelay       == 5     \* time.sleep(5)

(***************************************************************************)
(* Text                                                                    *)
(***************************************************************************)
EC2 == "ec2-metadata."

\* the strings of length 0..n over the symbols in S
RECURSIVE StringsUpTo(_, _)
StringsUpTo(S, n) ==
    IF n = 0 THEN {<<>>}
    ELSE LET shorter == StringsUpTo(S, n - 1)
         IN  shorter \cup {Append(s, c) : s \in shorter, c \in S}

\* the sequences of length 0..n of distinct elements of S
RECURSIVE DistinctSeqs(_, _)
DistinctSeqs(S, n) ==
    IF n = 0 THEN {<<>>}
    ELSE LET shorter == DistinctSeqs(S, n - 1)
         IN  shorter \cup
             UNION {{Append(s, c) : c \in {x \in S : \A i \in 1..Len(s) : s[i] # x}}
                    : s \in shorter}

StartsWith(s, k) == Len(k) <= Len(s) /\ SubSeq(s, 1, Len(k)) = k

\* Python: key in line
Contains(line, key) ==
    \E i \in 1..(Len(line) - Len(key) + 1) : SubSeq(line, i, i + Len(key) - 1) = key

\* a variant that replaces the first occurrence only
RECURSIVE replace_firstOnly(_, _, _)
replace_firstOnly(line, key, value) ==
    IF Len(line) < Len(key) THEN line
    ELSE IF StartsWith(line, key)
         THEN value \o SubSeq(line, Len(key) + 1, Len(line))
         ELSE <<Head(line)>> \o replace_firstOnly(Tail(line), key, value)

\* Python: line.replace(key, value), key non-empty: the non-overlapping
\* occurrences of key, found left to right, are replaced
RECURSIVE replace(_, _, _)
replace(line, key, value) ==
    IF Len(line) < Len(key) THEN line
    ELSE IF StartsWith(line, key)
         THEN value \o replace(SubSeq(line, Len(key) + 1, Len(line)), key, value)
         ELSE <<Head(line)>> \o replace(Tail(line), key, value)

(***************************************************************************)
(* The instruction payload (instance user data, parsed JSON)               *)
(***************************************************************************)
VolRequired == {"dev_name", "mount_point", "snapshot_id", "vol_size"}
VolKeys     == VolRequired \cup {"delete_on_terminate"}
TagKeys     == {"Name", "Env"}
ServiceNames == {"web", "worker"}

NoVol  == [keys |-> {}, delete_on_terminate |-> "none"]
NoMeta == [instance |-> FALSE, tags |-> <<>>]

\* the 'app_vol' objects: any subset of the five keys
AppVols ==
    {[keys |-> K, delete_on_terminate |-> d] :
        K \in SUBSET VolKeys, d \in {"true", "false"}}
    \cup {[keys |-> K, delete_on_terminate |-> "none"] : K \in SUBSET VolRequired}

WellFormedVol(v) ==
    ("delete_on_terminate" \in v.keys) <=> (v.delete_on_terminate # "none")

TagValue(k) == IF k = "Name" THEN <<"X">> ELSE <<"prod">>

\* the 'metadata' objects: without 'instance', or with a set of instance tags
Metadatas ==
    {NoMeta} \cup
    {[instance |-> TRUE, tags |-> [k \in D |-> TagValue(k)]] :
        D \in (SUBSET TagKeys) \ {{}}}

ServiceLists == DistinctSeqs(ServiceNames, MaxServices)

\* json_data: bootstrap says whether the document has a 'bootstrap' object,
\* keys are the keys of that object; the value of an absent key is a filler
RawPayloads ==
    {[bootstrap |-> FALSE, keys |-> {}, app_vol |-> NoVol, metadata |-> NoMeta,
      services |-> <<>>]}
    \cup
    {[bootstrap |-> TRUE, keys |-> K, app_vol |-> v, metadata |-> m, services |-> s] :
        K \in SUBSET {"bucket_name", "bundle_name", "app_vol", "metadata", "services"},
        v \in {a \in AppVols : WellFormedVol(a)}, m \in Metadatas, s \in ServiceLists}

WellFormedPayload(p) ==
    /\ ("app_vol"  \notin p.keys) => p.app_vol  = NoVol
    /\ ("metadata" \notin p.keys) => p.metadata = NoMeta
    /\ ("services" \notin p.keys) => p.services = <<>>

Payloads == {p \in RawPayloads : WellFormedPayload(p)}

NoPayload == [bootstrap |-> FALSE, keys |-> {}, app_vol |-> NoVol, metadata |-> NoMeta,
              services |-> <<>>]

\* os.environ: each of the three variables is unset, empty or set; at most
\* one of them is not set
EnvVars  == {"INSTANCE_ID", "AWS_REGION", "AWS_AZ"}
Environs == {e \in [EnvVars -> {"unset", "", "set"}] :
                Cardinality({v \in EnvVars : e[v] # "set"}) <= 1}
NoEnviron == [v \in EnvVars |-> "unread"]

(***************************************************************************)
(* The bundle, the instance object and the target files                    *)
(***************************************************************************)
KeySet     == {<<"K">>, <<"J">>}
ValueSet   == {<<"v">>, <<EC2, "a">>, <<EC2>>}
AttrNames  == {<<"a">>}
MetaValues == {<<"m">>}
LineSet    == {<<"K", "x", "J", "K">>}
Paths      == {"f1", "f2"}

\* the [host_config] sections: up to MaxItems entries with distinct keys
Configs ==
    UNION {{[i \in 1..Len(ks) |-> [key |-> ks[i], value |-> vs[i]]] :
               vs \in [1..Len(ks) -> ValueSet]}
           : ks \in DistinctSeqs(KeySet, MaxItems)}

\* the instance objects: an attribute is absent, empty or has a value
Instances ==
    UNION {[D -> MetaValues \cup {<<>>}] : D \in SUBSET AttrNames}

Contents  == StringsUpTo(LineSet, MaxLines)

\* a target file: not looked at yet, absent, or a file with its lines
UnknownFile == [state |-> "unknown", lines |-> <<>>]
AbsentFile  == [state |-> "absent",  lines |-> <<>>]
FilesOnDisk == {AbsentFile} \cup {[state |-> "file", lines |-> c] : c \in Contents}

(***************************************************************************)
(* State                                                                   *)
(***************************************************************************)
VARIABLES
    pc,          \* position in main() and the functions it calls
    rc,          \* exit status of the process, -1 while it runs
    err,         \* what ended the run: [kind, name]
    json_data,   \* the parsed user data
    environ,     \* os.environ, known once main() has read it
    steps,       \* the orchestrator steps entered so far, in order
    calls,       \* the external operations invoked so far
    delete_on_terminate,  \* local of create_attach_app_vol: "unbound" or its value
    retcode,     \* its local retcode: exit status of the last mount, -1 before
    mount_log,   \* local history: the passes of its mount loop, [delay, retcode]
    mounted,     \* whether mount_point is mounted
    owner,       \* EC2: volume -> "absent", "none", "self" or "other"
    dotUpdate,   \* delete-on-terminate update: "none", "ok" or "failed"
    bundle_exists,  \* os.path.exists(bundle_path)
    config,      \* local of bootstrap: config.items('host_config'), in order
    instance,    \* local of bootstrap: the attributes of the instance object
    filelist,    \* local of bootstrap: the lines read from the file list so far
    fs,          \* the target files: path -> [state, lines]
    replaced,    \* the replacements logged so far: [key, value]
    tags,        \* EC2: resource -> its tags
    service_i,   \* local of start_services: position in the list
    executable,  \* the services whose init script has mode 755
    enabled,     \* the services chkconfig has turned on
    chk_failed,  \* the services for which a chkconfig call returned non-zero
    started,     \* the services started, in order
    svc_log,     \* the calls start_services has made: [op, service, retcode]
    script,      \* the script that runs: "webcenter" or "cs"
    listing,     \* substitution runs: the lines of the file list file
    disk0,       \* substitution runs: the target files before the run
    rewrites     \* substitution runs: path -> in-place rewrites begun on it

vars == <<pc, rc, err, json_data, environ, steps, calls, delete_on_terminate,
          retcode, mount_log, mounted, owner, dotUpdate, bundle_exists,
          config, instance, filelist, fs, replaced, tags, service_i,
          executable, enabled, chk_failed, started, svc_log,
          script, listing, disk0, rewrites>>

Volumes   == {"vol-root", "vol-app", "vol-other"}
Resources == Volumes \cup {"instance"}
NoErr   == [kind |-> "none", name |-> <<>>]

Init ==
    /\ pc = "start"
    /\ rc = -1
    /\ err = NoErr
    /\ json_data = NoPayload
    /\ environ = NoEnviron
    /\ steps = <<>>
    /\ calls = {}
    /\ delete_on_terminate = "unbound"
    /\ retcode = -1
    /\ mount_log = <<>>
    /\ mounted = FALSE
    /\ owner = [v \in Volumes |->
                  IF v = "vol-root" THEN "self" ELSE IF v = "vol-other" THEN "other"
                  ELSE "absent"]
    /\ dotUpdate = "none"
    /\ bundle_exists = FALSE
    /\ config = <<>>
    /\ instance = <<>>
    /\ filelist = <<>>
    /\ fs = [f \in Paths |-> UnknownFile]
    /\ replaced = {}
    /\ tags = [r \in Resources |-> <<>>]
    /\ service_i = 0
    /\ executable = {}
    /\ enabled = {}
    /\ chk_failed = {}
    /\ started = <<>>
    /\ svc_log = <<>>
    /\ script = "webcenter"
    /\ listing = <<>>
    /\ disk0 = fs
    /\ rewrites = [f \in Paths |-> 0]

(***************************************************************************)
(* main(): user data, required keys, environment                           *)
(***************************************************************************)
\* the run ends abnormally: return 1, or an exception that reaches the top
Fail(kind, name) ==
    /\ pc' = "FAILED"
    /\ rc' = 1
    /\ err' = [kind |-> kind, name |-> name]

\* subprocess.call raises the OSError of the exec when the program cannot be
\* executed.  The errno is whatever the exec reports (2 when the program is
\* not on the PATH, 13 without execute permission, 8 for a file that is no
\* program, 40 for a loop of links, ...); err records the class of the
\* error, as it does for os.chmod, not the errno.
ExecError == "OSError:exec"

\* 'bootstrap' in json_data and 'bucket_name' in json_data['bootstrap']
HasBucketName(j) == j.bootstrap /\ "bucket_name" \in j.keys
\* a variant that forgets to look for 'bundle_name'
HasBundleName_untested(j) == j.bootstrap

\* 'bootstrap' in json_data and 'bundle_name' in json_data['bootstrap']
HasBundleName(j) == j.bootstrap /\ "bundle_name" \in j.keys
\* 'app_vol' in json_data['bootstrap']
HasAppVol(j)   == "app_vol" \in j.keys
\* a variant that looks for 'services' where it should look for 'metadata'
HasMetadata_wrongKey(j) == j.bootstrap /\ "services" \in j.keys

\* 'bootstrap' in json_data and 'metadata' in json_data['bootstrap']
HasMetadata(j) == j.bootstrap /\ "metadata" \in j.keys
\* 'bootstrap' in json_data and 'services' in json_data['bootstrap']
HasServices(j) == j.bootstrap /\ "services" \in j.keys

\* the bookkeeping of the substitution runs
substUnchanged == UNCHANGED <<script, listing, disk0, rewrites>>

tailUnchanged == UNCHANGED <<tags, service_i, executable, enabled, chk_failed, started, svc_log>>

bootUnchanged == /\ UNCHANGED <<bundle_exists, config, instance, filelist, fs,
                                replaced>>
                 /\ tailUnchanged

volUnchanged == UNCHANGED <<delete_on_terminate, retcode, mount_log, mounted,
                            owner, dotUpdate>>

\* json_data = get_userdata_json(), with the two except clauses
FetchUserdata ==
    /\ pc = "start"
    /\ steps' = Append(steps, "FETCH_USERDATA")
    /\ calls' = calls \cup {"get_instance_userdata"}
    /\ \/ /\ Fail("AWSConnectionError", <<>>)
          /\ UNCHANGED json_data
       \/ /\ Fail("JSONDecodeError", <<>>)
          /\ UNCHANGED json_data
       \/ /\ json_data' \in Payloads
          /\ pc' = "check_payload"
          /\ UNCHANGED <<rc, err>>
    /\ UNCHANGED environ
    /\ volUnchanged
    /\ bootUnchanged
    /\ substUnchanged

\* the two tests that fetch bucket_name and bundle_name, each with return 1
CheckPayload ==
    /\ pc = "check_payload"
    /\ IF HasBucketName(json_data) /\ HasBundleName(json_data)
       THEN pc' = "read_environ" /\ UNCHANGED <<rc, err>>
       ELSE Fail("return1", <<>>)
    /\ UNCHANGED <<json_data, environ, steps, calls>>
    /\ volUnchanged
    /\ bootUnchanged
    /\ substUnchanged

\* the three os.environ lookups, connect_to_region and the emptiness test
ReadEnviron ==
    /\ pc = "read_environ"
    /\ \E e \in Environs :
        /\ environ' = e
        /\ IF \E v \in EnvVars : e[v] = "unset"
           THEN Fail("KeyError", <<>>) /\ UNCHANGED calls
           ELSE /\ calls' = calls \cup {"connect_to_region"}
                /\ IF \E v \in EnvVars : e[v] = ""
                   THEN Fail("Exception:environment", <<>>)
                   ELSE /\ pc' = IF HasAppVol(json_data) THEN "vol_check" ELSE "get_bundle"
                        /\ UNCHANGED <<rc, err>>
    /\ UNCHANGED <<json_data, steps>>
    /\ volUnchanged
    /\ bootUnchanged
    /\ substUnchanged

(***************************************************************************)
(* create_attach_app_vol                                                   *)
(***************************************************************************)
MountRetcodes  == {0, 32}
ModifyRetcodes == {0, 1}

\* a variant that forgets to look for 'snapshot_id'
VolSpecComplete_noSnapshot(v) == (VolRequired \ {"snapshot_id"}) \subseteq v.keys

\* 'dev_name' in app_vol and 'mount_point' in app_vol and
\* 'snapshot_id' in app_vol and 'vol_size' in app_vol
VolSpecComplete(v) == VolRequired \subseteq v.keys

\* a variant without the break
MountLoopContinues_noBreak(n, last) == n < MaxMountTries

\* a variant that retries until a mount succeeds
MountLoopContinues_unbounded(n, last) == last # 0

\* the for loop runs its body again after n passes: range(0, 5) is not
\* exhausted and the last mount did not break out
MountLoopContinues(n, last) == n < MaxMountTries /\ last # 0

\* entry: the test of the four required keys, and the optional fifth
VolCheck ==
    /\ pc = "vol_check"
    /\ steps' = Append(steps, "VOLUME_PROVISION")
    /\ IF VolSpecComplete(json_data.app_vol)
       THEN /\ pc' = "vol_create"
            /\ delete_on_terminate' =
                 IF "delete_on_terminate" \in json_data.app_vol.keys
                 THEN json_data.app_vol.delete_on_terminate ELSE "unbound"
            /\ UNCHANGED <<rc, err>>
       ELSE /\ Fail("Exception:Not enough information", <<>>)
            /\ UNCHANGED delete_on_terminate
    /\ UNCHANGED <<json_data, environ, calls, retcode, mount_log, mounted, owner,
                   dotUpdate>>
    /\ bootUnchanged
    /\ substUnchanged

\* vol = ec2.create_volume(vol_size, zone, snapshot_id)
VolCreate ==
    /\ pc = "vol_create"
    /\ calls' = calls \cup {"create_volume"}
    /\ \/ /\ owner' = [owner EXCEPT !["vol-app"] = "none"]
          /\ pc' = "vol_attach"
          /\ UNCHANGED <<rc, err>>
       \/ /\ Fail("EC2ResponseError", <<>>)
          /\ UNCHANGED owner
    /\ UNCHANGED <<json_data, environ, steps, delete_on_terminate, retcode, mount_log,
                   mounted, dotUpdate>>
    /\ bootUnchanged
    /\ substUnchanged

\* vol.attach(instance_id, dev_name)
VolAttach ==
    /\ pc = "vol_attach"
    /\ calls' = calls \cup {"attach_volume"}
    /\ \/ /\ owner' = [owner EXCEPT !["vol-app"] = "self"]
          /\ pc' = "vol_mount"
          /\ UNCHANGED <<rc, err>>
       \/ /\ Fail("EC2ResponseError", <<>>)
          /\ UNCHANGED owner
    /\ UNCHANGED <<json_data, environ, steps, delete_on_terminate, retcode, mount_log,
                   mounted, dotUpdate>>
    /\ bootUnchanged
    /\ substUnchanged

\* one pass of the for loop: sleep, mount, break on success
MountAttempt ==
    /\ pc = "vol_mount"
    /\ \/ \E r \in MountRetcodes :
            /\ mount_log' = Append(mount_log, [delay |-> MountDelay, retcode |-> r])
            /\ calls' = calls \cup {"mount"}
            /\ retcode' = r
            /\ mounted' = (r = 0)
            /\ pc' = IF MountLoopContinues(Len(mount_log) + 1, r) THEN "vol_mount" ELSE "vol_dot"
            /\ UNCHANGED <<rc, err>>
       \/ \* mount cannot be executed
          /\ Fail(ExecError, <<>>)
          /\ UNCHANGED <<mount_log, calls, retcode, mounted>>
    /\ UNCHANGED <<json_data, environ, steps, delete_on_terminate, owner, dotUpdate>>
    /\ bootUnchanged
    /\ substUnchanged

\* after the loop: the test of delete_on_terminate, the update, the return
VolDeleteOnTerminate ==
    /\ pc = "vol_dot"
    /\ IF delete_on_terminate = "unbound"
       THEN /\ Fail("UnboundLocalError", <<>>)
            /\ UNCHANGED <<calls, dotUpdate, delete_on_terminate, retcode, mount_log>>
       ELSE \/ \* ec2-modify-instance-attribute cannot be executed
               /\ delete_on_terminate = "true"
               /\ Fail(ExecError, <<>>)
               /\ UNCHANGED <<calls, dotUpdate, delete_on_terminate, retcode, mount_log>>
            \/ /\ pc' = "get_bundle"
               /\ UNCHANGED <<rc, err>>
               /\ IF delete_on_terminate = "true"
                  THEN /\ calls' = calls \cup {"ec2-modify-instance-attribute"}
                       /\ \E r \in ModifyRetcodes :
                            dotUpdate' = IF r = 0 THEN "ok" ELSE "failed"
                  ELSE UNCHANGED <<calls, dotUpdate>>
               \* the function returns: its locals are gone
               /\ delete_on_terminate' = "unbound"
               /\ retcode' = -1
               /\ mount_log' = <<>>
    /\ UNCHANGED <<json_data, environ, steps, mounted, owner>>
    /\ bootUnchanged
    /\ substUnchanged

(***************************************************************************)
(* get_bundle, explode_bundle                                              *)
(***************************************************************************)
mainUnchanged == UNCHANGED <<json_data, environ>>

\* bundle_path = get_bundle(bucket_name, bundle_name, '/tmp')
GetBundle ==
    /\ pc = "get_bundle"
    /\ steps' = Append(steps, "FETCH_BUNDLE")
    /\ calls' = calls \cup {"s3_get"}
    /\ \/ /\ Fail("S3Error", <<>>)
          /\ UNCHANGED bundle_exists
       \/ /\ bundle_exists' \in BOOLEAN
          /\ pc' = "explode"
          /\ UNCHANGED <<rc, err>>
    /\ mainUnchanged
    /\ volUnchanged
    /\ tailUnchanged
    /\ UNCHANGED <<config, instance, filelist, fs, replaced>>
    /\ substUnchanged

\* os.path.exists(bundle_path)
BundleSaved(exists) == exists

\* the test that the bundle exists, then explode_bundle(bundle_path)
ExplodeBundle ==
    /\ pc = "explode"
    /\ IF BundleSaved(bundle_exists)
       THEN /\ steps' = Append(steps, "EXPLODE_BUNDLE")
            /\ \/ pc' = "bootstrap" /\ UNCHANGED <<rc, err>>
               \* not a zip file: the raise names the undefined 'ext'
               \/ Fail("NameError", <<>>)
       ELSE /\ Fail("Exception:Didn't save bootstrapping bundle", <<>>)
            /\ UNCHANGED steps
    /\ UNCHANGED calls
    /\ mainUnchanged
    /\ volUnchanged
    /\ bootUnchanged
    /\ substUnchanged

(***************************************************************************)
(* bootstrap, migrate_file                                                 *)
(***************************************************************************)
\* m = re.search('^ec2\-metadata\.(.+)$', value); m and m.group(1)
IsDirective(value) == Len(value) >= 2 /\ Head(value) = EC2
\* m.group(1)
DirectiveAttribute(value) == Tail(value)

\* getattr(instance, name) raises AttributeError
LacksAttribute(inst, name) == name \notin DOMAIN inst

LineResult(ok, line, events, e) ==
    [ok |-> ok, line |-> line, events |-> events, err |-> e]

\* a variant that leaves the loop over the entries after the first replacement
RECURSIVE migrate_line_earlyExit(_, _, _, _)
migrate_line_earlyExit(inst, items, line, i) ==
    IF i > Len(items) THEN LineResult(TRUE, line, {}, NoErr)
    ELSE
      LET key  == items[i].key
          raw  == items[i].value
          attr == DirectiveAttribute(raw)
      IN  IF IsDirective(raw) /\ LacksAttribute(inst, attr)
          THEN LineResult(FALSE, line, {}, [kind |-> "AttributeError", name |-> attr])
          ELSE IF IsDirective(raw) /\ inst[attr] = <<>>
          THEN LineResult(FALSE, line, {},
                 [kind |-> "Exception:Couldn't retrieve EC2 instance metadata for key",
                  name |-> key])
          ELSE
            LET value == IF IsDirective(raw) THEN inst[attr] ELSE raw
            IN  IF Contains(line, key)
                THEN LineResult(TRUE, replace(line, key, value),
                                {[key |-> key, value |-> value]}, NoErr)
                ELSE migrate_line_earlyExit(inst, items, line, i + 1)

\* the body of 'for key, value in config.items(...)' from entry i on, for one
\* line: the line after the replacements, the replacements logged, and the
\* exception if one is raised
RECURSIVE migrate_line(_, _, _, _)
migrate_line(inst, items, line, i) ==
    IF i > Len(items) THEN LineResult(TRUE, line, {}, NoErr)
    ELSE
      LET key  == items[i].key
          raw  == items[i].value
          attr == DirectiveAttribute(raw)
      IN  IF IsDirective(raw) /\ LacksAttribute(inst, attr)
          THEN LineResult(FALSE, line, {}, [kind |-> "AttributeError", name |-> attr])
          ELSE IF IsDirective(raw) /\ inst[attr] = <<>>
          THEN LineResult(FALSE, line, {},
                 [kind |-> "Exception:Couldn't retrieve EC2 instance metadata for key",
                  name |-> key])
          ELSE
            LET value == IF IsDirective(raw) THEN inst[attr] ELSE raw
                hit   == Contains(line, key)
                rest  == migrate_line(inst, items,
                                      IF hit THEN replace(line, key, value) ELSE line,
                                      i + 1)
            IN  [rest EXCEPT !.events =
                    IF hit THEN @ \cup {[key |-> key, value |-> value]} ELSE @]

FileResult(ok, lines, events, e) ==
    [ok |-> ok, lines |-> lines, events |-> events, err |-> e]

\* migrate_file from line n on: the lines printed into the file, the
\* replacements logged, and the exception if one is raised
RECURSIVE migrate_file(_, _, _, _)
migrate_file(inst, items, lines, n) ==
    IF n > Len(lines) THEN FileResult(TRUE, <<>>, {}, NoErr)
    ELSE
      LET r == migrate_line(inst, items, lines[n], 1)
      IN  IF ~r.ok THEN FileResult(FALSE, <<>>, r.events, r.err)
          ELSE LET rest == migrate_file(inst, items, lines, n + 1)
               IN  FileResult(rest.ok, <<r.line>> \o rest.lines,
                              r.events \cup rest.events, rest.err)

\* entry of bootstrap: the properties, the instance object, the open file list
BootstrapStart ==
    /\ pc = "bootstrap"
    /\ steps' = Append(steps, "RESOLVE_AND_SUBSTITUTE")
    /\ calls' = calls \cup {"get_all_instances"}
    /\ \/ /\ Fail("EC2ResponseError", <<>>)
          /\ UNCHANGED <<config, instance>>
       \/ /\ config' \in Configs
          /\ instance' \in Instances
          /\ pc' = "bootstrap_loop"
          /\ UNCHANGED <<rc, err>>
    /\ mainUnchanged
    /\ volUnchanged
    /\ tailUnchanged
    /\ UNCHANGED <<bundle_exists, filelist, fs, replaced>>
    /\ substUnchanged

\* one pass of 'for file in open(filelist_file)': the next line of the file
\* list is read, and the file it names is migrated if it exists.  The file
\* list is read a line at a time, and the state of a target file is settled
\* when the program first looks at it.
BootstrapFile ==
    /\ pc = "bootstrap_loop"
    /\ Len(filelist) < MaxFileList
    /\ \E file \in Paths :
       /\ filelist' = Append(filelist, file)
       /\ \E disk \in IF fs[file] = UnknownFile THEN FilesOnDisk ELSE {fs[file]} :
            IF disk.state = "file"
            THEN LET r == migrate_file(instance, config, disk.lines, 1) IN
                 /\ fs' = [fs EXCEPT ![file] = [state |-> "file", lines |-> r.lines]]
                 /\ replaced' = replaced \cup r.events
                 /\ IF r.ok
                    THEN UNCHANGED <<pc, rc, err>>
                    ELSE Fail(r.err.kind, r.err.name)
            ELSE /\ fs' = [fs EXCEPT ![file] = disk]
                 /\ UNCHANGED <<pc, rc, err, replaced>>
    /\ UNCHANGED <<steps, calls, bundle_exists, config, instance>>
    /\ mainUnchanged
    /\ volUnchanged
    /\ tailUnchanged
    /\ substUnchanged

\* the end of the file list is read: bootstrap returns, its locals are gone
BootstrapReturn ==
    /\ pc = "bootstrap_loop"
    /\ pc' = "after_bootstrap"
    /\ config' = <<>>
    /\ instance' = <<>>
    /\ filelist' = <<>>
    /\ UNCHANGED <<rc, err, steps, calls, bundle_exists, fs, replaced>>
    /\ mainUnchanged
    /\ volUnchanged
    /\ tailUnchanged
    /\ substUnchanged

(***************************************************************************)
(* set_metadata                                                            *)
(***************************************************************************)
\* zone = os.environ['AWS_AZ']
Zone(e) == IF e["AWS_AZ"] = "set" THEN <<"Z">> ELSE <<>>

\* a variant that leaves the name as it is
SuffixedTags_noSuffix(t, zone) == t

\* 'Name' in instance_metadata and zone != '': instance_metadata['Name'] += ' - ' + zone
SuffixedTags(t, zone) ==
    IF "Name" \in DOMAIN t /\ zone # <<>>
    THEN [t EXCEPT !["Name"] = @ \o <<" - ">> \o zone]
    ELSE t

\* ec2.create_tags: the tags given are added to those the resource has
WithTags(old, new) ==
    [k \in DOMAIN old \cup DOMAIN new |-> IF k \in DOMAIN new THEN new[k] ELSE old[k]]

\* a variant that does not filter the volumes by their instance
AttachedVolumes_unfiltered(own) == {v \in Volumes : own[v] # "absent"}

\* [v.id for v in ec2.get_all_volumes() if v.attach_data.instance_id == instance_id]
AttachedVolumes(own) == {v \in Volumes : own[v] = "self"}

\* main() falls off its end: sys.exit(None)
Finish ==
    /\ pc' = "DONE"
    /\ rc' = 0
    /\ UNCHANGED err

\* the test for 'metadata', and set_metadata(ec2, instance_id, zone, metadata)
SetMetadata ==
    /\ pc = "after_bootstrap"
    /\ IF ~HasMetadata(json_data)
       THEN /\ pc' = "after_metadata"
            /\ UNCHANGED <<rc, err, json_data, steps, calls, tags>>
       ELSE
         /\ steps' = Append(steps, "TAG_RESOURCES")
         /\ IF ~json_data.metadata.instance
            THEN /\ pc' = "after_metadata"
                 /\ UNCHANGED <<rc, err, json_data, calls, tags>>
            ELSE
              LET t    == SuffixedTags(json_data.metadata.tags, Zone(environ))
                  vols == AttachedVolumes(owner)
              IN
              /\ json_data' = [json_data EXCEPT !.metadata.tags = t]
              /\ \/ \* create_tags(resources, instance_metadata) is false
                    /\ Fail("Exception:Couldn't tag instance", <<>>)
                    /\ calls' = calls \cup {"create_tags"}
                    /\ UNCHANGED tags
                 \/ \* the instance is tagged; volumes need no Name
                    /\ "Name" \notin DOMAIN t
                    /\ calls' = calls \cup {"create_tags", "get_all_volumes"}
                    /\ tags' = [tags EXCEPT !["instance"] = WithTags(@, t)]
                    /\ pc' = "after_metadata"
                    /\ UNCHANGED <<rc, err>>
                 \/ \* the instance is tagged; create_tags(volumes, ...) is false
                    /\ "Name" \in DOMAIN t
                    /\ calls' = calls \cup {"create_tags", "get_all_volumes"}
                    /\ tags' = [tags EXCEPT !["instance"] = WithTags(@, t)]
                    /\ Fail("Exception:Couldn't tag volumes with instance name", <<>>)
                 \/ \* the instance and its volumes are tagged
                    /\ "Name" \in DOMAIN t
                    /\ calls' = calls \cup {"create_tags", "get_all_volumes"}
                    /\ tags' = [r \in Resources |->
                                  IF r = "instance" THEN WithTags(tags[r], t)
                                  ELSE IF r \in vols
                                  THEN WithTags(tags[r], [k \in {"Name"} |-> t["Name"]])
                                  ELSE tags[r]]
                    /\ pc' = "after_metadata"
                    /\ UNCHANGED <<rc, err>>
    /\ UNCHANGED <<environ, bundle_exists, config, instance, filelist, fs, replaced,
                   service_i, executable, enabled, chk_failed, started, svc_log>>
    /\ volUnchanged
    /\ substUnchanged

(***************************************************************************)
(* start_services                                                          *)
(***************************************************************************)
ChkconfigRetcodes == {0, 1}
ServiceRetcodes   == {0, 1}

\* the test for 'services' and the call of start_services(services)
StartServices ==
    /\ pc = "after_metadata"
    /\ IF HasServices(json_data)
       THEN /\ steps' = Append(steps, "START_SERVICES")
            /\ service_i' = 1
            /\ pc' = "services_loop"
            /\ UNCHANGED <<rc, err>>
       ELSE /\ Finish
            /\ UNCHANGED <<steps, service_i>>
    /\ UNCHANGED <<calls, tags, executable, enabled, chk_failed, started, svc_log>>
    /\ mainUnchanged
    /\ volUnchanged
    /\ UNCHANGED <<bundle_exists, config, instance, filelist, fs, replaced>>
    /\ substUnchanged

\* a variant that takes any of the three exit statuses for a failure
ServiceFailed_anyCall(on, reset, start) == on # 0 \/ reset # 0 \/ start # 0

\* a variant that never sees a failure
ServiceFailed_never(on, reset, start) == FALSE

\* retcode is assigned by each of the three calls and tested once, after the
\* last: retcode != 0
ServiceFailed(on, reset, start) == start # 0

SvcCall(op, service, status) == [op |-> op, service |-> service, retcode |-> status]

\* one pass of 'for service in services': chmod, chkconfig on, chkconfig
\* reset, service start, and the test of the last exit status
StartService ==
    /\ pc = "services_loop"
    /\ service_i <= Len(json_data.services)
    /\ LET service == json_data.services[service_i] IN
       \/ \* os.chmod raises: there is no such init script
          /\ Fail("OSError:chmod", <<service>>)
          /\ calls' = calls \cup {"chmod"}
          /\ svc_log' = Append(svc_log, SvcCall("chmod", service, 1))
          /\ UNCHANGED <<service_i, executable, enabled, chk_failed, started>>
       \/ \* chkconfig (in either call) or service cannot be executed: the calls
          \* made before it have returned
          \E made \in 1..3, on \in ChkconfigRetcodes, reset \in ChkconfigRetcodes :
          /\ calls' = calls \cup (IF made = 1 THEN {"chmod"} ELSE {"chmod", "chkconfig"})
          /\ svc_log' = svc_log \o
                SubSeq(<<SvcCall("chmod", service, 0),
                         SvcCall("chkconfig on", service, on),
                         SvcCall("chkconfig reset", service, reset)>>, 1, made)
          /\ executable' = executable \cup {service}
          /\ enabled' = IF made >= 2 /\ on = 0 THEN enabled \cup {service} ELSE enabled
          /\ chk_failed' = IF (made >= 2 /\ on # 0) \/ (made = 3 /\ reset # 0)
                           THEN chk_failed \cup {service} ELSE chk_failed
          /\ Fail(ExecError, <<>>)
          /\ UNCHANGED <<service_i, started>>
       \/ \E on \in ChkconfigRetcodes, reset \in ChkconfigRetcodes,
             start \in ServiceRetcodes :
          /\ calls' = calls \cup {"chmod", "chkconfig", "service"}
          /\ svc_log' = svc_log \o <<SvcCall("chmod", service, 0),
                                     SvcCall("chkconfig on", service, on),
                                     SvcCall("chkconfig reset", service, reset),
                                     SvcCall("service start", service, start)>>
          /\ executable' = executable \cup {service}
          /\ enabled' = IF on = 0 THEN enabled \cup {service} ELSE enabled
          /\ chk_failed' = IF on # 0 \/ reset # 0 THEN chk_failed \cup {service}
                           ELSE chk_failed
          /\ started' = IF start = 0 THEN Append(started, service) ELSE started
          /\ IF ServiceFailed(on, reset, start)
             THEN /\ Fail("OSError:start", <<service>>)
                  /\ UNCHANGED service_i
             ELSE /\ service_i' = service_i + 1
                  /\ UNCHANGED <<pc, rc, err>>
    /\ UNCHANGED <<steps, tags>>
    /\ mainUnchanged
    /\ volUnchanged
    /\ UNCHANGED <<bundle_exists, config, instance, filelist, fs, replaced>>
    /\ substUnchanged

\* the list is exhausted: start_services and main() return
ServicesReturn ==
    /\ pc = "services_loop"
    /\ service_i > Len(json_data.services)
    /\ Finish
    /\ service_i' = 0
    /\ UNCHANGED <<steps, calls, tags, executable, enabled, chk_failed, started, svc_log>>
    /\ mainUnchanged
    /\ volUnchanged
    /\ UNCHANGED <<bundle_exists, config, instance, filelist, fs, replaced>>
    /\ substUnchanged

Next ==
    \/ FetchUserdata
    \/ CheckPayload
    \/ ReadEnviron
    \/ VolCheck
    \/ VolCreate
    \/ VolAttach
    \/ MountAttempt
    \/ VolDeleteOnTerminate
    \/ GetBundle
    \/ ExplodeBundle
    \/ BootstrapStart
    \/ BootstrapFile
    \/ BootstrapReturn
    \/ SetMetadata
    \/ StartServices
    \/ StartService
    \/ ServicesReturn

Spec == Init /\ [][Next]_vars

\* every external call returns or fails, and the script goes on
FairSpec == Spec /\ WF_vars(Next)

(***************************************************************************)
(* The substitution runs: bootstrap() of bootstrap-webcenter-sites.py and  *)
(* the whole of bootstrap-cs.py, on a file list and target files that are  *)
(* there from the start                                                    *)
(***************************************************************************)
MaxListing == 2
MaxPairs   == 2
MaxLineLen == 3

Scripts == {"webcenter", "cs"}

\* the file list files: up to MaxListing lines, each a path
Listings == StringsUpTo(Paths, MaxListing)

\* a variant in which every path is found
path_exists_always(files, file) == TRUE

\* os.path.exists(file)
path_exists(files, file) == files[file].state = "file"

\* bootstrap-cs.py: the body of 'for key, value in config.items(...)' from
\* entry i on, for one line; the values are used as they are written
RECURSIVE cs_migrate_line(_, _, _)
cs_migrate_line(items, line, i) ==
    IF i > Len(items) THEN LineResult(TRUE, line, {}, NoErr)
    ELSE
      LET key   == items[i].key
          value == items[i].value
          hit   == Contains(line, key)
          rest  == cs_migrate_line(items,
                                   IF hit THEN replace(line, key, value) ELSE line,
                                   i + 1)
      IN  [rest EXCEPT !.events =
              IF hit THEN @ \cup {[key |-> key, value |-> value]} ELSE @]

\* bootstrap-cs.py: migrate_file from line n on
RECURSIVE cs_migrate_file(_, _, _)
cs_migrate_file(items, lines, n) ==
    IF n > Len(lines) THEN FileResult(TRUE, <<>>, {}, NoErr)
    ELSE LET r    == cs_migrate_line(items, lines[n], 1)
             rest == cs_migrate_file(items, lines, n + 1)
         IN  FileResult(TRUE, <<r.line>> \o rest.lines, r.events \cup rest.events, NoErr)

\* the text of the runs that exercise the replacement itself: keys and
\* lines over letters that do not occur in 'ec2-metadata.', which the text
\* holds as the one symbol EC2
TextKeys   == {<<"p">>, <<"q">>, <<"p", "p">>, <<"p", "q">>}
TextValues == {<<>>, <<"p">>, <<"q">>, <<"r">>, <<"p", "p">>, <<EC2, "a">>}
TextLines  == StringsUpTo({"p", "q"}, MaxLineLen)
TextInstance == [n \in {<<"a">>} |-> <<"r", "q">>]

ExampleConfig ==
    <<[key |-> <<"{{HOST}}">>, value |-> <<"db1.internal">>],
      [key |-> <<"{{ENV}}">>,  value |-> <<"prod">>]>>
ExampleLine == <<"connect to ", "{{HOST}}", " in ", "{{ENV}}">>

\* [host_config] sections of up to MaxPairs entries with distinct keys
TextConfigs ==
    {ExampleConfig} \cup
    UNION {{[i \in 1..Len(ks) |-> [key |-> ks[i], value |-> vs[i]]] :
               vs \in [1..Len(ks) -> TextValues]}
           : ks \in DistinctSeqs(TextKeys, MaxPairs)}

\* target files of no line, one line, or a line followed by a second one
TextFiles ==
    {<<>>, <<ExampleLine>>} \cup {<<l>> : l \in TextLines}
                            \cup {<<l, <<"q", "p">>>> : l \in TextLines}

\* nothing of main() outside bootstrap() has run
MainIdle ==
    /\ rc = -1
    /\ err = NoErr
    /\ json_data = NoPayload
    /\ environ = NoEnviron
    /\ steps = <<>>
    /\ calls = {}
    /\ delete_on_terminate = "unbound"
    /\ retcode = -1
    /\ mount_log = <<>>
    /\ mounted = FALSE
    /\ owner = [v \in Volumes |-> "absent"]
    /\ dotUpdate = "none"
    /\ bundle_exists = TRUE
    /\ replaced = {}
    /\ tags = [r \in Resources |-> <<>>]
    /\ service_i = 0
    /\ executable = {}
    /\ enabled = {}
    /\ chk_failed = {}
    /\ started = <<>>
    /\ svc_log = <<>>

\* a substitution run about to read its file list
SubstInit ==
    /\ MainIdle
    /\ pc = "subst_loop"
    /\ script \in Scripts
    /\ config \in Configs
    /\ instance \in (IF script = "webcenter" THEN Instances ELSE {<<>>})
    /\ listing \in Listings
    /\ fs \in [Paths -> FilesOnDisk]
    /\ disk0 = fs
    /\ filelist = <<>>
    /\ rewrites = [f \in Paths |-> 0]

\* a substitution run whose file list names the one target file twice
TextInit ==
    /\ MainIdle
    /\ pc = "subst_loop"
    /\ script \in Scripts
    /\ config \in TextConfigs
    /\ instance = (IF script = "webcenter" THEN TextInstance ELSE <<>>)
    /\ listing = <<"f1", "f1">>
    /\ \E c \in TextFiles :
          fs = [f \in Paths |-> IF f = "f1" THEN [state |-> "file", lines |-> c]
                                ELSE AbsentFile]
    /\ disk0 = fs
    /\ filelist = <<>>
    /\ rewrites = [f \in Paths |-> 0]

substFrame ==
    /\ UNCHANGED <<steps, calls, bundle_exists, config, instance, script, listing, disk0>>
    /\ mainUnchanged
    /\ volUnchanged
    /\ tailUnchanged

\* fileinput.FileInput(file, inplace=1) moves the file aside and opens an
\* empty one under its name; the lines printed become its content, up to
\* the exception if one is raised
Rewrite(file, r) ==
    /\ fs' = [fs EXCEPT ![file] = [state |-> "file", lines |-> r.lines]]
    /\ rewrites' = [rewrites EXCEPT ![file] = @ + 1]
    /\ replaced' = replaced \cup r.events
    /\ IF r.ok THEN UNCHANGED <<pc, rc, err>> ELSE Fail(r.err.kind, r.err.name)

\* bootstrap-webcenter-sites.py: one pass of 'for file in open(filelist_file)'
SubstFileWebcenter ==
    /\ script = "webcenter"
    /\ pc = "subst_loop"
    /\ Len(filelist) < Len(listing)
    /\ LET file == listing[Len(filelist) + 1] IN
       /\ filelist' = Append(filelist, file)
       /\ IF path_exists(fs, file)
          THEN Rewrite(file, migrate_file(instance, config, fs[file].lines, 1))
          ELSE UNCHANGED <<fs, rewrites, replaced, pc, rc, err>>
    /\ substFrame

\* bootstrap-cs.py: one pass of 'for line in open(AMI_FILELIST)'; FileInput
\* raises OSError when it cannot move the file aside
SubstFileCs ==
    /\ script = "cs"
    /\ pc = "subst_loop"
    /\ Len(filelist) < Len(listing)
    /\ LET file == listing[Len(filelist) + 1] IN
       /\ filelist' = Append(filelist, file)
       /\ IF fs[file].state = "file"
          THEN Rewrite(file, cs_migrate_file(config, fs[file].lines, 1))
          ELSE /\ Fail("OSError:No such file or directory", <<file>>)
               /\ UNCHANGED <<fs, rewrites, replaced>>
    /\ substFrame

\* the end of the file list: bootstrap() returns to main(), bootstrap-cs.py
\* ends
SubstReturn ==
    /\ pc = "subst_loop"
    /\ Len(filelist) = Len(listing)
    /\ IF script = "cs"
       THEN pc' = "DONE" /\ rc' = 0
       ELSE pc' = "after_bootstrap" /\ UNCHANGED rc
    /\ UNCHANGED <<err, filelist, fs, rewrites, replaced>>
    /\ substFrame

SubstNext ==
    \/ SubstFileWebcenter
    \/ SubstFileCs
    \/ SubstReturn

SubstSpec == SubstInit /\ [][SubstNext]_vars
TextSpec  == TextInit /\ [][SubstNext]_vars

(***************************************************************************)
(* Properties                                                              *)
(***************************************************************************)
Range(s) == {s[i] : i \in 1..Len(s)}

StepOrder == <<"FETCH_USERDATA", "VOLUME_PROVISION", "FETCH_BUNDLE", "EXPLODE_BUNDLE",
               "RESOLVE_AND_SUBSTITUTE", "TAG_RESOURCES", "START_SERVICES">>

\* the step is one the payload asks for
StepRequested(step) ==
    CASE step = "VOLUME_PROVISION" -> "app_vol"  \in json_data.keys
      [] step = "TAG_RESOURCES"    -> "metadata" \in json_data.keys
      [] step = "START_SERVICES"   -> "services" \in json_data.keys
      [] OTHER -> TRUE

\* the mount loop has ended and no attempt succeeded
MountExhausted == "mount" \in calls /\ pc # "vol_mount" /\ ~mounted

\* C1: a run that reaches DONE has executed exactly the steps the payload
\* asks for, once each and in the fixed order: the three optional steps if
\* and only if 'app_vol', 'metadata', 'services' are in the payload; and
\* EXPLODE_BUNDLE is entered only when the fetched bundle exists locally.
C1_StepsInOrder ==
    /\ pc = "DONE" => steps = SelectSeq(StepOrder, StepRequested)
    /\ "EXPLODE_BUNDLE" \in Range(steps) => bundle_exists

C1_Witness ==
    /\ pc = "DONE"
    /\ Len(steps) = Len(StepOrder)

\* C2: a step that fails sends the run to FAILED with a non-zero outcome, no
\* later step runs, no step runs twice, and the outcome is 0 only when every
\* step that was present succeeded (for volume provisioning: the volume is
\* mounted).
C2_StepFailureIsFatal ==
    /\ err # NoErr => pc = "FAILED" /\ rc # 0
    /\ \A i, j \in 1..Len(steps) : i # j => steps[i] # steps[j]
    /\ MountExhausted => "FETCH_BUNDLE" \notin Range(steps)
    /\ rc = 0 => pc = "DONE" /\ err = NoErr /\ ~MountExhausted

\* C3: with a payload that lacks 'bootstrap', 'bucket_name' or 'bundle_name'
\* the run ends non-zero and nothing but the user data has been touched: no
\* cloud connection, volume, bundle fetch, substitution, tag or service.
C3_MissingKeysHaltEarly ==
    ~(json_data.bootstrap /\ {"bucket_name", "bundle_name"} \subseteq json_data.keys) =>
        /\ pc \in {"start", "check_payload", "FAILED"}
        /\ pc = "FAILED" => rc # 0
        /\ calls \subseteq {"get_instance_userdata"}
        /\ Range(steps) \subseteq {"FETCH_USERDATA"}
        /\ owner["vol-app"] = "absent" /\ ~mounted
        /\ \A f \in Paths : fs[f] = UnknownFile
        /\ \A r \in Resources : tags[r] = <<>>
        /\ started = <<>> /\ enabled = {} /\ executable = {}

C3_Witness ==
    /\ pc = "FAILED"
    /\ rc = 1
    /\ json_data.bootstrap
    /\ "bucket_name" \in json_data.keys
    /\ "bundle_name" \notin json_data.keys
    /\ {"app_vol", "metadata", "services"} \subseteq json_data.keys

\* C4: at most 5 mount attempts are made, each after one delay of 5, and the
\* loop stops at the first success: a mount that first succeeds on attempt k
\* is attempted exactly k times.
C4_MountRetryBound ==
    /\ Len(mount_log) <= 5
    /\ \A i \in 1..Len(mount_log) : mount_log[i].delay = 5
    /\ \A i \in 1..(Len(mount_log) - 1) : mount_log[i].retcode # 0
    /\ pc = "vol_mount" => \A i \in 1..Len(mount_log) : mount_log[i].retcode # 0
    /\ pc = "vol_mount" => Len(mount_log) < 5
    /\ pc = "vol_dot" =>
         /\ Len(mount_log) >= 1
         /\ mount_log[Len(mount_log)].retcode = 0 \/ Len(mount_log) = 5
         /\ mounted <=> mount_log[Len(mount_log)].retcode = 0

C4_Witness ==
    /\ pc = "vol_dot"
    /\ Len(mount_log) = 3
    /\ mount_log[3].retcode = 0
    /\ mounted

\* C5: when all 5 mount attempts fail the bootstrap goes to FAILED: neither
\* the delete-on-terminate update nor any later step is executed, and the
\* volume stays created and attached.
C5_MountExhaustionIsTerminal ==
    MountExhausted =>
        /\ pc \in {"vol_dot", "FAILED"}
        /\ "ec2-modify-instance-attribute" \notin calls
        /\ "FETCH_BUNDLE" \notin Range(steps)
        /\ owner["vol-app"] = "self"

\* C6: an 'app_vol' that lacks one of the four required keys makes
\* create_attach_app_vol raise before create-volume, attach-volume or mount
\* is called, and the bootstrap fails.
C6_IncompleteVolumeSpecRaises ==
    ("app_vol" \in json_data.keys /\ ~(VolRequired \subseteq json_data.app_vol.keys)) =>
        /\ calls \cap {"create_volume", "attach_volume", "mount"} = {}
        /\ owner["vol-app"] = "absent" /\ ~mounted
        /\ pc \notin {"vol_create", "vol_attach", "vol_mount", "vol_dot", "DONE"}
        /\ "VOLUME_PROVISION" \in Range(steps) =>
              /\ pc = "FAILED" /\ rc # 0
              /\ err.kind = "Exception:Not enough information"
              /\ steps[Len(steps)] = "VOLUME_PROVISION"

C6_Witness ==
    /\ pc = "FAILED"
    /\ err.kind = "Exception:Not enough information"
    /\ json_data.app_vol.keys = VolKeys \ {"snapshot_id"}
    /\ "connect_to_region" \in calls

\* C7: a complete 'app_vol' without 'delete_on_terminate', once mounted,
\* completes without error, makes no delete-on-terminate update, and the run
\* goes on to FETCH_BUNDLE.
C7_DeleteOnTerminateOptional ==
    ( /\ "app_vol" \in json_data.keys
      /\ VolRequired \subseteq json_data.app_vol.keys
      /\ "delete_on_terminate" \notin json_data.app_vol.keys
      /\ mounted ) =>
        /\ dotUpdate = "none"
        /\ "ec2-modify-instance-attribute" \notin calls
        /\ pc = "FAILED" => "FETCH_BUNDLE" \in Range(steps)

\* C8: a failed delete-on-terminate update is not fatal, the run goes on to
\* FETCH_BUNDLE; and it is the only step whose failure does not lead to
\* FAILED (a volume that could not be mounted does).
C8_OnlyDeleteOnTerminateIsBestEffort ==
    /\ dotUpdate = "failed" =>
          /\ pc # "vol_dot"
          /\ "FETCH_BUNDLE" \in Range(steps) \/ pc = "get_bundle"
    /\ (MountExhausted /\ pc # "vol_dot") => pc = "FAILED"

\* a [host_config] entry is a directive whose attribute is absent or empty
Unresolvable(items, inst) ==
    {i \in 1..Len(items) :
        /\ Len(items[i].value) >= 2
        /\ Head(items[i].value) = EC2
        /\ \/ Tail(items[i].value) \notin DOMAIN inst
           \/ inst[Tail(items[i].value)] = <<>>}

\* C9: if some [host_config] entry is a directive whose attribute is absent
\* or empty, bootstrap never returns: the run ends in FAILED and reaches
\* neither tagging, service start nor DONE, whatever the file list and files.
C9_UnresolvedDirectiveAborts ==
    [][(pc = "bootstrap_loop" /\ Unresolvable(config, instance) # {})
          => pc' \in {"bootstrap_loop", "FAILED"}]_vars

\* C10: a value written for a key is the key's literal property value or the
\* live value of the attribute its directive names, never the directive; and
\* a failure over an absent or empty attribute is a resolution error naming
\* the placeholder key.
C10_ResolutionCompleteness ==
    (steps # <<>> /\ steps[Len(steps)] = "RESOLVE_AND_SUBSTITUTE"
       /\ pc \in {"bootstrap_loop", "FAILED"}) =>
      /\ \A e \in replaced : \E i \in 1..Len(config) :
            /\ config[i].key = e.key
            /\ IF Len(config[i].value) >= 2 /\ Head(config[i].value) = EC2
               THEN /\ Tail(config[i].value) \in DOMAIN instance
                    /\ e.value = instance[Tail(config[i].value)]
                    /\ e.value # <<>>
                    /\ e.value # config[i].value
               ELSE e.value = config[i].value
      /\ (pc = "FAILED" /\ Unresolvable(config, instance) # {}) =>
            /\ err.kind = "Exception:Couldn't retrieve EC2 instance metadata for key"
            /\ \E i \in Unresolvable(config, instance) : err.name = config[i].key

\* set_metadata has run with an 'instance' object and has returned
TaggingSucceeded ==
    /\ "TAG_RESOURCES" \in Range(steps)
    /\ json_data.metadata.instance
    /\ ~(pc = "FAILED" /\ steps[Len(steps)] = "TAG_RESOURCES")

\* the Name the payload gives, with and without the zone suffix
SuppliedName == <<"X">>
SuffixedName == IF environ["AWS_AZ"] = "" THEN <<"X">> ELSE <<"X", " - ", "Z">>

\* C13 as stated: with two attached volumes and Name = "X", after tagging
\* both volumes carry Name = "X" and the instance carries "X - <zone>".
C13_VolumesCarrySuppliedName ==
    ( /\ TaggingSucceeded
      /\ "Name" \in DOMAIN json_data.metadata.tags
      /\ {v \in Volumes : owner[v] = "self"} = {"vol-root", "vol-app"} ) =>
        /\ tags["instance"]["Name"] = <<"X", " - ", "Z">>
        /\ tags["vol-root"]["Name"] = SuppliedName
        /\ tags["vol-app"]["Name"] = SuppliedName

\* C13 amended: with two attached volumes and Name = "X", after tagging the
\* instance and both volumes carry Name = "X - <zone>".
C13_VolumesCarrySuffixedName ==
    ( /\ TaggingSucceeded
      /\ "Name" \in DOMAIN json_data.metadata.tags
      /\ {v \in Volumes : owner[v] = "self"} = {"vol-root", "vol-app"} ) =>
        /\ tags["instance"]["Name"] = <<"X", " - ", "Z">>
        /\ tags["vol-root"] = [k \in {"Name"} |-> <<"X", " - ", "Z">>]
        /\ tags["vol-app"]  = [k \in {"Name"} |-> <<"X", " - ", "Z">>]

C13_Witness ==
    /\ TaggingSucceeded
    /\ owner["vol-app"] = "self"
    /\ "Name" \in DOMAIN tags["vol-app"]
    /\ "Name" \in DOMAIN tags["vol-root"]

\* C14: after set_metadata the instance carries every supplied tag, Name with
\* the zone suffix; exactly the volumes attached to this instance carry a
\* tag, only Name, with the instance's suffixed value, and none at all when
\* no Name was supplied; volumes of other instances are never tagged.
C14_TagsApplied ==
    /\ tags["vol-other"] = <<>>
    /\ "TAG_RESOURCES" \notin Range(steps) => \A r \in Resources : tags[r] = <<>>
    /\ TaggingSucceeded =>
         LET supplied == DOMAIN json_data.metadata.tags IN
         /\ DOMAIN tags["instance"] = supplied
         /\ \A k \in supplied :
               tags["instance"][k] = IF k = "Name" THEN SuffixedName ELSE <<"prod">>
         /\ \A v \in Volumes :
               tags[v] = IF owner[v] = "self" /\ "Name" \in supplied
                         THEN [k \in {"Name"} |-> SuffixedName]
                         ELSE <<>>

C14_Witness ==
    /\ TaggingSucceeded
    /\ DOMAIN tags["instance"] = {"Name", "Env"}
    /\ DOMAIN tags["vol-app"] = {"Name"}
    /\ owner["vol-other"] = "other"

\* the 'service start' calls made so far
IsStartCall(c) == c.op = "service start"
StartCalls == SelectSeq(svc_log, IsStartCall)

\* C15: services are processed in list order, and a non-zero exit of the
\* start of service i halts the list: the services before i have been made
\* executable, have had 'chkconfig on' run for them, whatever it returned,
\* and have been started; i's failure is reported, no later service is made
\* executable, enabled or started, and the run ends non-zero.
C15_StartFailureHaltsList ==
    LET services == json_data.services IN
    /\ Len(StartCalls) <= Len(services)
    /\ started = [k \in 1..Len(started) |-> services[k]]
    /\ \A k \in 1..Len(StartCalls) :
          /\ StartCalls[k].service = services[k]
          /\ k < Len(StartCalls) => StartCalls[k].retcode = 0
          /\ StartCalls[k].retcode = 0 =>
                /\ k <= Len(started)
                /\ services[k] \in executable
                /\ \E n \in 1..Len(svc_log) :
                      /\ svc_log[n].op = "chkconfig on"
                      /\ svc_log[n].service = services[k]
          /\ StartCalls[k].retcode # 0 =>
                /\ pc = "FAILED" /\ rc # 0
                /\ err = [kind |-> "OSError:start", name |-> <<services[k]>>]
                /\ svc_log[Len(svc_log)] = StartCalls[k]
                /\ Len(started) = k - 1
                /\ \A j \in (k + 1)..Len(services) :
                      /\ services[j] \notin executable \cup enabled
                      /\ \A n \in 1..Len(svc_log) : svc_log[n].service # services[j]

\* C15 as stated: when the start of service i exits non-zero, the services
\* before i are enabled (chkconfig has turned them on) and started, and the
\* rest of the claim holds.
C15_EarlierServicesEnabled ==
    /\ C15_StartFailureHaltsList
    /\ \A k \in 1..Len(StartCalls) :
          StartCalls[k].retcode # 0 =>
              \A j \in 1..(k - 1) :
                  /\ json_data.services[j] \in enabled
                  /\ json_data.services[j] \in Range(started)

C15_Witness ==
    /\ json_data.services = <<"web", "worker">>
    /\ pc = "FAILED"
    /\ rc = 1
    /\ started = <<"web">>
    /\ err = [kind |-> "OSError:start", name |-> <<"worker">>]

\* C18: every run reaches DONE or FAILED, no step is taken from either, and
\* the mount loop makes at most 5 passes.
C18_Terminates ==
    /\ <>(pc \in {"DONE", "FAILED"})
    /\ [][pc \notin {"DONE", "FAILED"}]_vars
    /\ [](Len(mount_log) <= 5)

C18_Witness ==
    /\ pc = "DONE"
    /\ "mount" \in calls
    /\ ~mounted
    /\ Len(started) = 2

\* the call that follows op for the same service
NextOp(op) ==
    IF op = "chmod" THEN "chkconfig on"
    ELSE IF op = "chkconfig on" THEN "chkconfig reset"
    ELSE "service start"

\* C20: for each service chmod, 'chkconfig on', 'chkconfig reset' and
\* 'service start' run in that order; whatever the exit code of a chkconfig
\* call, the next call for the service is made, and no exit code but that
\* of the start makes start_services fail (the other failures are a call
\* that raises: chmod, or a program that cannot be executed).
C20_OnlyStartDecides ==
    /\ svc_log # <<>> => svc_log[1].op = "chmod"
    /\ \A n \in 1..(Len(svc_log) - 1) :
          IF svc_log[n].op = "service start"
          THEN svc_log[n].retcode = 0 /\ svc_log[n + 1].op = "chmod"
          ELSE /\ svc_log[n].op = "chmod" => svc_log[n].retcode = 0
               /\ svc_log[n + 1].op = NextOp(svc_log[n].op)
               /\ svc_log[n + 1].service = svc_log[n].service
    /\ svc_log # <<>> =>
          LET last == svc_log[Len(svc_log)] IN
          /\ (last.op = "service start" /\ last.retcode = 0) =>
                 (pc # "FAILED" /\ last.service \in Range(started))
          /\ (last.op = "service start" /\ last.retcode # 0) =>
                 (pc = "FAILED" /\ err.kind = "OSError:start")
          /\ (last.op = "chmod" /\ last.retcode # 0) =>
                 (pc = "FAILED" /\ err.kind = "OSError:chmod")
          /\ (last.op # "service start" /\ last.retcode = 0) =>
                 (pc = "FAILED" /\ err.kind = ExecError)
          /\ (last.op \in {"chkconfig on", "chkconfig reset"} /\ last.retcode # 0) =>
                 (pc = "FAILED" /\ err.kind = ExecError)
    /\ (pc = "FAILED" /\ err.kind = "OSError:start") =>
          /\ svc_log # <<>>
          /\ svc_log[Len(svc_log)].op = "service start"
          /\ svc_log[Len(svc_log)].retcode # 0

C20_Witness ==
    /\ pc = "DONE"
    /\ started = <<"web", "worker">>
    /\ chk_failed = {"web", "worker"}
    /\ enabled = {"worker"}

(***************************************************************************)
(* Properties of the substitution runs                                     *)
(***************************************************************************)
\* the mapping the running script substitutes with: the webcenter script
\* puts the instance attribute in place of an 'ec2-metadata.' value
Resolved(items, inst, scr) ==
    [i \in 1..Len(items) |->
        [key   |-> items[i].key,
         value |-> IF scr = "webcenter" /\ IsDirective(items[i].value)
                   THEN inst[DirectiveAttribute(items[i].value)]
                   ELSE items[i].value]]

\* the left fold of the first k pairs of mapping m over a line
RECURSIVE FoldPairs(_, _, _)
FoldPairs(m, line, k) ==
    IF k = 0 THEN line
    ELSE LET cur == FoldPairs(m, line, k - 1)
         IN  IF Contains(cur, m[k].key) THEN replace(cur, m[k].key, m[k].value)
             ELSE cur

\* C11: a rewrite that succeeds turns every line of the file into the fold,
\* in table order and over all pairs, of 'replace every occurrence of the key
\* by the value'; the lines keep their order and their number.
C11_LineIsFoldOverAllPairs ==
    [][\A f \in Paths :
          (fs[f].state = "file" /\ rewrites'[f] = rewrites[f] + 1 /\ pc' # "FAILED") =>
              /\ fs'[f].state = "file"
              /\ Len(fs'[f].lines) = Len(fs[f].lines)
              /\ \A n \in 1..Len(fs[f].lines) :
                    fs'[f].lines[n] =
                        FoldPairs(Resolved(config, instance, script),
                                  fs[f].lines[n], Len(config))]_vars

C11_Witness ==
    /\ script = "webcenter"
    /\ config = ExampleConfig
    /\ disk0["f1"].lines = <<ExampleLine>>
    /\ rewrites["f1"] = 1
    /\ fs["f1"].lines = <<<<"connect to ", "db1.internal", " in ", "prod">>>>

\* no key is a substring of another key's value or of another key
DisjointKeys(m) ==
    \A i, j \in DOMAIN m :
        i # j => /\ ~Contains(m[j].value, m[i].key)
                 /\ ~Contains(m[j].key, m[i].key)

\* every value is non-empty and shares no character with any key
ValuesApartFromKeys(m) ==
    \A i, j \in DOMAIN m :
        /\ m[j].value # <<>>
        /\ Range(m[i].key) \cap Range(m[j].value) = {}

\* the second rewrite of the file with the same mapping
SecondRun == rewrites["f1"] = 1 /\ rewrites'["f1"] = 2

\* C12 as stated: with disjoint keys the second run changes nothing
C12_IdempotentOnDisjointKeys ==
    [][(DisjointKeys(Resolved(config, instance, script)) /\ SecondRun)
          => fs' = fs]_vars

\* C12: when no key is a substring of another key, every value is non-empty
\* and no character of a key occurs in a value (its own value included), a
\* second run with the same mapping leaves the content unchanged.
C12_IdempotentOnSeparateAlphabets ==
    [][(/\ DisjointKeys(Resolved(config, instance, script))
        /\ ValuesApartFromKeys(Resolved(config, instance, script))
        /\ SecondRun)
          => fs' = fs]_vars

C12_Witness ==
    /\ config = <<[key |-> <<"q">>, value |-> <<"r">>],
                  [key |-> <<"p", "p">>, value |-> <<"r">>]>>
    /\ disk0["f1"].lines = <<<<"p", "p", "q">>>>
    /\ rewrites["f1"] = 2
    /\ fs["f1"].lines = <<<<"r", "r">>>>

\* the lines of seq that name f
Count(seq, f) == Cardinality({i \in 1..Len(seq) : seq[i] = f})

\* the file list has been read to its end
Completed == pc \in {"DONE", "after_bootstrap"}

\* C16 as stated: at the end of a run each listed file was rewritten once
C16_EachListedFileOnce ==
    Completed => \A f \in Range(listing) : rewrites[f] = 1

\* C16: an existing file is rewritten once for every line of the file list
\* that names it (once when it is named once), a file that does not exist is
\* never rewritten or created, and a run that ends normally has read the
\* whole list.
C16_OneRewritePerListedLine ==
    /\ \A f \in Paths :
          /\ rewrites[f] = IF disk0[f].state = "file" THEN Count(filelist, f) ELSE 0
          /\ disk0[f] = AbsentFile => fs[f] = AbsentFile
    /\ Completed => filelist = listing

C16_Witness ==
    /\ script = "webcenter"
    /\ pc = "after_bootstrap"
    /\ listing = <<"f2", "f1">>
    /\ disk0["f2"] = AbsentFile
    /\ rewrites = [f \in Paths |-> IF f = "f1" THEN 1 ELSE 0]

\* C17: in both scripts a listed file that does not exist is passed over: no
\* error is raised for it and no file is created.
C17_MissingFileSkipped ==
    \A i \in 1..Len(filelist) :
        disk0[filelist[i]] = AbsentFile =>
            /\ fs[filelist[i]] = AbsentFile
            /\ ~(pc = "FAILED" /\ i = Len(filelist)
                               /\ err.kind = "OSError:No such file or directory")

\* C19: a run that failed with a resolution error has left every target
\* file as it was.
C19_ResolutionLeavesFilesIntact ==
    (pc = "FAILED"
       /\ err.kind = "Exception:Couldn't retrieve EC2 instance metadata for key")
    => \A f \in Paths : fs[f] = disk0[f]

====
